---------------------------- MODULE Spec2Model ----------------------------
(***************************************************************************)
(* A model of SymSpell.FrequencyDictionary/script.py: the batch script     *)
(* that downloads the Google Books 1-gram shards of every language,        *)
(* decompresses them, merges their counts into a per-language word table   *)
(* built from a curated wordlist, and appends the ranked table to          *)
(* '{lang}-frequency.txt'.                                                 *)
(*                                                                         *)
(* The script is one sequential program.  Its position is pc plus the two  *)
(* loop indices li (language) and ki (letter).  The remote corpus and the  *)
(* local file system are its environment: they are drawn in Init and the   *)
(* script's reads and writes act on them.  An uncaught Python exception    *)
(* ends the run: exc names the exception and pc stays at the step that     *)
(* raised it; no step is taken once exc is set.                            *)
(*                                                                         *)
(* Text is handled as sequences of one-character strings, so that          *)
(* str.split, str.lower, int() and str() are computed, not assumed.  A     *)
(* line of an input file is kept as one string; Chars gives its            *)
(* characters.                                                             *)
(*                                                                         *)
(* Left out: the progress prints inside download (lines 37-42), network    *)
(* errors other than HTTPError, and byte-level block sizes; a served       *)
(* shard body is non-empty and arrives whole.                              *)
(***************************************************************************)
EXTENDS Integers, Sequences, FiniteSets, TLC

(***************************************************************************)
(* Bounds of the model.                                                    *)
(***************************************************************************)
\* how many of the script's languages are configured
NumLangs == 2
\* how many of the script's letters (partitions) are configured
NumLetters == 2
\* max_final_words ranges over 0..MaxFinalWords
MaxFinalWords == 2

(***************************************************************************)
(* Text: characters, tokens, lines.                                        *)
(***************************************************************************)
Whitespace == {" ", "\t"}

Digit == <<"0", "1", "2", "3", "4", "5", "6", "7", "8", "9">>

IsDigit(c) == \E d \in 1..10 : Digit[d] = c

DigitVal(c) == (CHOOSE d \in 1..10 : Digit[d] = c) - 1

\* str.lower on one character (the alphabet of the model's inputs)
LowerChar(c) ==
    CASE c = "C" -> "c"
      [] c = "D" -> "d"
      [] c = "O" -> "o"
      [] c = "G" -> "g"
      [] c = "N" -> "n"
      [] c = "U" -> "u"
      [] c = "X" -> "x"
      [] OTHER -> c

\* str.lower
lower(tok) == [i \in 1..Len(tok) |-> LowerChar(tok[i])]

RECURSIVE SplitFrom(_, _, _, _)
SplitFrom(s, i, cur, acc) ==
    IF i > Len(s)
    THEN IF cur = <<>> THEN acc ELSE Append(acc, cur)
    ELSE IF s[i] \in Whitespace
         THEN SplitFrom(s, i + 1, <<>>, IF cur = <<>> THEN acc ELSE Append(acc, cur))
         ELSE SplitFrom(s, i + 1, Append(cur, s[i]), acc)

\* str.split(): the maximal runs of non-whitespace characters
split(s) == SplitFrom(s, 1, <<>>, <<>>)

\* whether int(tok) returns (an optional sign, then one or more digits)
\* rather than raising ValueError
IntOk(tok) ==
    LET body == IF Len(tok) >= 1 /\ tok[1] \in {"-", "+"} THEN Tail(tok) ELSE tok
    IN  /\ Len(body) >= 1
        /\ \A i \in 1..Len(body) : IsDigit(body[i])

RECURSIVE NatOf(_)
NatOf(ds) ==
    IF ds = <<>> THEN 0
    ELSE 10 * NatOf(SubSeq(ds, 1, Len(ds) - 1)) + DigitVal(ds[Len(ds)])

\* int(tok), for a token with IntOk(tok)
int(tok) ==
    IF tok[1] = "-" THEN 0 - NatOf(Tail(tok))
    ELSE IF tok[1] = "+" THEN NatOf(Tail(tok))
    ELSE NatOf(tok)

RECURSIVE StrNat(_)
StrNat(n) ==
    IF n < 10 THEN <<Digit[n + 1]>>
    ELSE StrNat(n \div 10) \o <<Digit[(n % 10) + 1]>>

\* str(count)
str(n) == IF n < 0 THEN <<"-">> \o StrNat(0 - n) ELSE StrNat(n)


(***************************************************************************)
(* The inputs of the model: the lines of the decoded shard files, the      *)
(* wordlists, and the output of an earlier run.                            *)
(***************************************************************************)
LineCat5 == "cat NOUN 5 2"

LineDog3 == "dog NOUN 3 1"

LineCat2 == "cat NOUN 2 1"

LineFish9 == "fish NOUN 9 1"

\* a leading blank, a tab, two blanks, an upper-case letter
LineCat12 == " Cat\tNOUN  12 1"

LineDog14 == "DOG X 14 3"

LineDog6 == "dog NOUN 6 1"

\* the third field is no integer
LineBadCount == "cat NOUN x"

\* fewer than three fields
LineTwoFields == "cat NOUN"

\* a blank line
LineBlank == ""

\* fewer than three fields, and a word of no wordlist
LineOwl == "owl x"

BadLines == {LineBadCount, LineTwoFields, LineBlank, LineOwl}

\* the decoded texts the remote serves, taken in rotation over the shards
Texts ==
    << <<LineCat5, LineDog3>>,
       <<LineCat2, LineFish9>>,
       <<LineCat12, LineDog14>> >>

\* the four lines of one file
ExampleText == <<LineCat5, LineDog3, LineCat2, LineFish9>>

\* what an earlier run left behind
StaleText == <<LineDog6>>

\* the curated wordlists, taken in rotation over the languages
Wordlists ==
    << <<"cat", "dog">>,
       <<"Dog", "fish x", "cat", "dog ", "emu">>,
       <<"fish">> >>

\* a wordlist with a blank line
WordlistWithBlank == <<"cat", "">>

\* records an earlier run wrote
PriorOutput == <<<<"o", "l", "d", " ", "1">>>>

\* the characters of a line of an input file (a line is kept as one string
\* in a file and read character by character)
Chars(line) ==
    CASE line = LineCat5 -> <<"c", "a", "t", " ", "N", "O", "U", "N", " ", "5", " ", "2">>
      [] line = LineDog3 -> <<"d", "o", "g", " ", "N", "O", "U", "N", " ", "3", " ", "1">>
      [] line = LineCat2 -> <<"c", "a", "t", " ", "N", "O", "U", "N", " ", "2", " ", "1">>
      [] line = LineFish9 -> <<"f", "i", "s", "h", " ", "N", "O", "U", "N", " ", "9", " ", "1">>
      [] line = LineCat12 -> <<" ", "C", "a", "t", "\t", "N", "O", "U", "N", " ", " ", "1", "2", " ", "1">>
      [] line = LineDog14 -> <<"D", "O", "G", " ", "X", " ", "1", "4", " ", "3">>
      [] line = LineDog6 -> <<"d", "o", "g", " ", "N", "O", "U", "N", " ", "6", " ", "1">>
      [] line = LineBadCount -> <<"c", "a", "t", " ", "N", "O", "U", "N", " ", "x">>
      [] line = LineTwoFields -> <<"c", "a", "t", " ", "N", "O", "U", "N">>
      [] line = LineOwl -> <<"o", "w", "l", " ", "x">>
      [] line = "cat" -> <<"c", "a", "t">>
      [] line = "dog" -> <<"d", "o", "g">>
      [] line = "Dog" -> <<"D", "o", "g">>
      [] line = "fish x" -> <<"f", "i", "s", "h", " ", "x">>
      [] line = "dog " -> <<"d", "o", "g", " ">>
      [] line = "emu" -> <<"e", "m", "u">>
      [] line = "fish" -> <<"f", "i", "s", "h">>
      [] line = "" -> <<>>

(***************************************************************************)
(* Configuration (script.py lines 6-12).                                   *)
(***************************************************************************)
AllLangs == <<"chi-sim", "eng", "fre", "ger", "heb", "ita", "rus", "spa">>

AllLetters ==
    <<"a", "b", "c", "d", "e", "f", "g", "h", "i", "j", "k", "l", "m", "n", "o",
      "other", "p", "pos", "punctuation", "q", "r", "s", "t", "u", "v", "w", "x",
      "y", "z">>

\* the configured languages: the first NumLangs of the script's list
langs == SubSeq(AllLangs, 1, NumLangs)

\* the configured letters in the script's order; the variable letters holds
\* the order the run iterates them in
LetterList == SubSeq(AllLetters, 1, NumLetters)

LangSet == {langs[i] : i \in 1..Len(langs)}

LetterSet == {LetterList[i] : i \in 1..Len(LetterList)}

\* a shard is one (language, letter) pair; it names the files
\* lang-letter.gz and lang-letter.txt and the remote url
Shards == LangSet \X LetterSet

\* all orders of the configured letters
Orders ==
    {p \in [1..NumLetters -> LetterSet] :
        \A i, j \in 1..NumLetters : p[i] = p[j] => i = j}

(***************************************************************************)
(* Files.  A file is absent or holds data; a .gz file holds either a valid *)
(* gzip stream of some text or bytes gzip cannot read.                     *)
(***************************************************************************)
AbsentFile == [exists |-> FALSE, data |-> <<>>]

TextFile(lines) == [exists |-> TRUE, data |-> lines]

AbsentGz == [exists |-> FALSE, ok |-> FALSE, data |-> <<>>]

GzFile(isGzip, lines) == [exists |-> TRUE, ok |-> isGzip, data |-> lines]

\* a remote answer: HTTPError (found = FALSE), or a body
NotFound == [found |-> FALSE, ok |-> FALSE, data |-> <<>>]

Served(isGzip, lines) == [found |-> TRUE, ok |-> isGzip, data |-> lines]

(***************************************************************************)
(* The table words: a Python dict, which keeps its keys in insertion order.*)
(* It is a sequence of [k, v] items with distinct keys.                    *)
(***************************************************************************)
HasKey(d, k) == \E i \in 1..Len(d) : d[i].k = k

IndexOf(d, k) == CHOOSE i \in 1..Len(d) : d[i].k = k

Get(d, k) == d[IndexOf(d, k)].v

Keys(d) == {d[i].k : i \in 1..Len(d)}

\* d[k] = v: an existing key keeps its position
DictSet(d, k, v) ==
    IF HasKey(d, k)
    THEN [d EXCEPT ![IndexOf(d, k)].v = v]
    ELSE Append(d, [k |-> k, v |-> v])

(***************************************************************************)
(* Building the table from the wordlist (script.py lines 68-71).           *)
(***************************************************************************)
\* a mutation: the entry is not lower-cased
WordlistKeyNotLowered(data) == data[1]

\* line.split()[0].lower()
WordlistKey(data) == lower(data[1])

RECURSIVE LoadFrom(_, _, _)
LoadFrom(lines, i, d) ==
    IF i > Len(lines) THEN [exc |-> "none", words |-> d]
    ELSE LET data == split(Chars(lines[i]))
         IN  IF Len(data) = 0
             THEN [exc |-> "IndexError", words |-> d]
             ELSE LoadFrom(lines, i + 1, DictSet(d, WordlistKey(data), 0))

\* words = {}; for line in dic: words[line.split()[0].lower()] = 0
LoadWordlist(file) ==
    IF ~file.exists THEN [exc |-> "FileNotFoundError", words |-> <<>>]
    ELSE LoadFrom(file.data, 1, <<>>)

(***************************************************************************)
(* Merging one decoded shard file into the table (script.py lines 76-80).  *)
(***************************************************************************)
\* a mutation: the count overwrites the accumulator
AccumulateOverwrite(old, n) == n

\* words[name] += n
Accumulate(old, n) == old + n

\* a mutation: the count is read from the field after the occurrence count
CountFieldShifted(data) == IF Len(data) >= 4 THEN data[4] ELSE data[3]

\* data[2]: the third whitespace-delimited field
CountField(data) == data[3]

\* one iteration of "for line in f_in"
MergeLine(d, line) ==
    LET data == split(Chars(line))
    IN  IF Len(data) = 0
        THEN [exc |-> "IndexError", words |-> d]
        ELSE LET name == lower(data[1])
             IN  IF ~HasKey(d, name)
                 THEN [exc |-> "none", words |-> d]
                 ELSE IF Len(data) < 3
                 THEN [exc |-> "IndexError", words |-> d]
                 ELSE IF ~IntOk(CountField(data))
                 THEN [exc |-> "ValueError", words |-> d]
                 ELSE [exc |-> "none",
                       words |-> DictSet(d, name,
                                    Accumulate(Get(d, name), int(CountField(data))))]

RECURSIVE MergeFrom(_, _, _)
MergeFrom(lines, i, d) ==
    IF i > Len(lines) THEN [exc |-> "none", words |-> d]
    ELSE LET r == MergeLine(d, lines[i])
         IN  IF r.exc # "none" THEN r ELSE MergeFrom(lines, i + 1, r.words)

\* the whole "for line in f_in" loop; it stops at the first exception
MergeFile(d, lines) == MergeFrom(lines, 1, d)

(***************************************************************************)
(* Ranking and writing (script.py lines 83-89).                            *)
(***************************************************************************)
\* where a stable descending sort puts item x into the sorted prefix acc:
\* after every item whose count is >= x's
RECURSIVE InsertDesc(_, _)
InsertDesc(acc, x) ==
    IF acc = <<>> THEN <<x>>
    ELSE IF Head(acc).v >= x.v
         THEN <<Head(acc)>> \o InsertDesc(Tail(acc), x)
         ELSE <<x>> \o acc

RECURSIVE SortFrom(_, _, _)
SortFrom(items, i, acc) ==
    IF i > Len(items) THEN acc
    ELSE SortFrom(items, i + 1, InsertDesc(acc, items[i]))

\* a mutation: the items are written in table order
sortedNot(items) == items

\* sorted(words.items(), key=lambda item: item[1], reverse=True): stable,
\* so items of equal count keep their table order
sorted(items) == SortFrom(items, 1, <<>>)

\* word + " " + str(count)   (the newline ends the line)
Record(item) == item.k \o <<" ">> \o str(item.v)

\* the emit loop: num += 1; write; if num >= max_final_words: break
RECURSIVE EmitFrom(_, _, _, _)
EmitFrom(items, i, n, maxw) ==
    IF i > Len(items) THEN [num |-> n, lines |-> <<>>]
    ELSE IF n + 1 >= maxw
         THEN [num |-> n + 1, lines |-> <<Record(items[i])>>]
         ELSE LET rest == EmitFrom(items, i + 1, n + 1, maxw)
              IN  [num |-> rest.num, lines |-> <<Record(items[i])>> \o rest.lines]

\* num = 0 and the loop over the sorted table
Emit(d, maxw) == EmitFrom(sorted(d), 1, 0, maxw)

(***************************************************************************)
(* The environments a run starts in.                                       *)
(***************************************************************************)
LangIndex(l) == CHOOSE i \in 1..Len(AllLangs) : AllLangs[i] = l

LetterIndex(k) == CHOOSE i \in 1..Len(AllLetters) : AllLetters[i] = k

\* the text of shard s and the wordlist of language l under rotation rot
CorpusText(rot, s) ==
    Texts[((LangIndex(s[1]) + LetterIndex(s[2]) + rot) % Len(Texts)) + 1]

WordlistOf(rot, l) == Wordlists[((LangIndex(l) + 1 + 2 * rot) % Len(Wordlists)) + 1]

Rotations == 0..(Len(Texts) - 1)

\* line x put before position pos of text t
InsertLine(t, pos, x) == SubSeq(t, 1, pos - 1) \o <<x>> \o SubSeq(t, pos, Len(t))

\* every shard is served whole, every wordlist is there, and no file of an
\* earlier run is around
Baseline(rot) ==
    [remote    |-> [s \in Shards |-> Served(TRUE, CorpusText(rot, s))],
     gz        |-> [s \in Shards |-> AbsentGz],
     txt       |-> [s \in Shards |-> AbsentFile],
     wordlist  |-> [l \in LangSet |-> TextFile(WordlistOf(rot, l))],
     frequency |-> [l \in LangSet |-> <<>>]]

\* what the remote may answer for a shard instead of the text t: not found,
\* a corrupt body, another text, an empty text, or t with one malformed line
\* (the non-integer count at every position, the other lines before the
\* last line of t)
RemoteDeviations(t) ==
    {NotFound, Served(FALSE, <<>>), Served(TRUE, ExampleText), Served(TRUE, <<>>)}
    \cup {Served(TRUE, InsertLine(t, pos, LineBadCount)) : pos \in 1..(Len(t) + 1)}
    \cup {Served(TRUE, InsertLine(t, Len(t), x)) : x \in BadLines}

\* the local files of a shard an earlier run may have left: [gz, txt]
LocalDeviations ==
    {[gz |-> GzFile(TRUE, StaleText), txt |-> AbsentFile],
     [gz |-> AbsentGz, txt |-> TextFile(StaleText)],
     [gz |-> GzFile(FALSE, <<>>), txt |-> AbsentFile]}

\* the environment base changed at shard s: another remote answer; files of
\* an earlier run with the shard no longer served; readable files of an
\* earlier run with the shard served
ShardEnvironments(base, s) ==
    {[base EXCEPT !.remote[s] = r] : r \in RemoteDeviations(base.remote[s].data)}
    \cup {[base EXCEPT !.gz[s] = f.gz, !.txt[s] = f.txt, !.remote[s] = NotFound] :
            f \in LocalDeviations}
    \cup {[base EXCEPT !.gz[s] = f.gz, !.txt[s] = f.txt] :
            f \in {x \in LocalDeviations : x.gz.ok \/ x.txt.exists}}

\* the environment base changed at language l
LangEnvironments(base, l) ==
    {[base EXCEPT !.wordlist[l] = w] :
        w \in {AbsentFile, TextFile(WordlistWithBlank)}}
    \cup {[base EXCEPT !.frequency[l] = PriorOutput]}

\* a baseline, or a baseline changed at one shard or at one language
EnvironmentsFrom(base) ==
    {base}
    \cup UNION {ShardEnvironments(base, s) : s \in Shards}
    \cup UNION {LangEnvironments(base, l) : l \in LangSet}

Environments == UNION {EnvironmentsFrom(Baseline(rot)) : rot \in Rotations}

(***************************************************************************)
(* State.                                                                  *)
(***************************************************************************)
VARIABLES
    letters,          \* configuration: the letters, in iteration order
    max_final_words,  \* configuration: the cap on the records written
    remote,           \* the remote's answer for each shard's url
    gz,               \* the local files lang-letter.gz
    txt,              \* the local files lang-letter.txt
    wordlist,         \* the local files lang-wordlist.txt
    frequency,        \* the local files lang-frequency.txt (absent = empty)
    start,            \* the local files the run started with (never changes)
    pc,               \* "download", "decompress", "wordlist", "merge", "emit"
                      \* or "done"
    li,               \* index into langs of the loop variable lang
    ki,               \* index into letters of the loop variable letter
    words,            \* the table of the language being merged
    num,              \* the records written by the current emit loop
    percent,          \* what the last download returned
    stdout,           \* the lines printed, as <<message, lang, letter, percent>>
    exc               \* the uncaught exception that ended the run, or "none"

vars ==
    <<letters, max_final_words, remote, gz, txt, wordlist, frequency, start, pc,
      li, ki, words, num, percent, stdout, exc>>

config == <<letters, max_final_words, remote, start>>

lang == langs[li]

letter == letters[ki]

shard == <<lang, letter>>

Init ==
    /\ letters \in Orders
    /\ max_final_words \in 0..MaxFinalWords
    /\ \E e \in Environments :
          /\ remote = e.remote
          /\ gz = e.gz
          /\ txt = e.txt
          /\ wordlist = e.wordlist
          /\ frequency = e.frequency
          /\ start = [gz |-> e.gz, txt |-> e.txt, frequency |-> e.frequency]
    /\ pc = "download"
    /\ li = 1
    /\ ki = 1
    /\ words = <<>>
    /\ num = 0
    /\ percent = 0
    /\ stdout = <<>>
    /\ exc = "none"

(***************************************************************************)
(* Control flow: where the script goes after each step.                    *)
(***************************************************************************)
Pos(p, i, k) == [pc |-> p, li |-> i, ki |-> k]

\* lines 48-49, then the decompress loops
AfterDownload(i, k) ==
    IF k < Len(letters) THEN Pos("download", i, k + 1)
    ELSE IF i < Len(langs) THEN Pos("download", i + 1, 1)
    ELSE Pos("decompress", 1, 1)

\* a mutation: each shard is merged as soon as it is decompressed
AfterDecompressInterleaved(i, k) == Pos("wordlist", i, 1)

\* lines 56-57, then the merge loop
AfterDecompress(i, k) ==
    IF k < Len(letters) THEN Pos("decompress", i, k + 1)
    ELSE IF i < Len(langs) THEN Pos("decompress", i + 1, 1)
    ELSE Pos("wordlist", 1, 1)

\* line 73, then the emit loop
AfterMerge(i, k) ==
    IF k < Len(letters) THEN Pos("merge", i, k + 1)
    ELSE Pos("emit", i, 1)

\* line 67
AfterEmit(i) ==
    IF i < Len(langs) THEN Pos("wordlist", i + 1, 1)
    ELSE Pos("done", i, 1)

Goto(p) ==
    /\ pc' = p.pc
    /\ li' = p.li
    /\ ki' = p.ki

\* an exception nothing catches: the interpreter exits
Raise(e) ==
    /\ exc' = e
    /\ UNCHANGED <<pc, li, ki>>

print(msg, l, k, n) == stdout' = Append(stdout, <<msg, l, k, n>>)

print2(msg1, msg2, l, k, n) ==
    stdout' = stdout \o << <<msg1, l, k, n>>, <<msg2, l, k, n>> >>

(***************************************************************************)
(* download(url, file_name), script.py lines 15-44: what it returns and    *)
(* what lang-letter.gz holds afterwards.                                   *)
(***************************************************************************)
download(answer, file) ==
    IF ~answer.found
    THEN [percent |-> 0, file |-> file, msg |-> "Did not find"]
    ELSE [percent |-> 100, file |-> GzFile(answer.ok, answer.data),
          msg |-> "Downloading"]

(***************************************************************************)
(* The steps of the script.                                                *)
(***************************************************************************)
\* lines 48-53: one iteration of the download loops
Download ==
    /\ pc = "download"
    /\ exc = "none"
    /\ LET r == download(remote[shard], gz[shard])
       IN  /\ gz' = [gz EXCEPT ![shard] = r.file]
           /\ percent' = r.percent
           /\ print2(r.msg, "Done with download", lang, letter, r.percent)
    /\ Goto(AfterDownload(li, ki))
    /\ UNCHANGED <<config, txt, wordlist, frequency, words, num, exc>>

\* lines 56-64: one iteration of the decompress loops
Decompress ==
    /\ pc = "decompress"
    /\ exc = "none"
    /\ IF ~gz[shard].exists
       THEN /\ print("Not found", lang, letter, 0)
            /\ Goto(AfterDecompress(li, ki))
            /\ UNCHANGED <<txt, exc>>
       ELSE IF gz[shard].ok
       THEN /\ txt' = [txt EXCEPT ![shard] = TextFile(gz[shard].data)]
            /\ print("Done decompressing", lang, letter, 0)
            /\ Goto(AfterDecompress(li, ki))
            /\ UNCHANGED exc
       ELSE \* open(..., 'wb') has created the .txt file when f_in.read() raises
            /\ txt' = [txt EXCEPT ![shard] = TextFile(<<>>)]
            /\ Raise("BadGzipFile")
            /\ UNCHANGED stdout
    /\ UNCHANGED <<config, gz, wordlist, frequency, words, num, percent>>

\* lines 68-71: the table of the next language
Wordlist ==
    /\ pc = "wordlist"
    /\ exc = "none"
    /\ LET r == LoadWordlist(wordlist[lang])
       IN  /\ words' = r.words
           /\ IF r.exc = "none"
              THEN /\ Goto(Pos("merge", li, 1))
                   /\ UNCHANGED exc
              ELSE Raise(r.exc)
    /\ UNCHANGED <<config, gz, txt, wordlist, frequency, num, percent, stdout>>

\* lines 73-81: one iteration of the letter loop of the merge
Merge ==
    /\ pc = "merge"
    /\ exc = "none"
    /\ IF ~txt[shard].exists
       THEN /\ Goto(AfterMerge(li, ki))
            /\ UNCHANGED <<words, stdout, exc>>
       ELSE LET r == MergeFile(words, txt[shard].data)
            IN  /\ words' = r.words
                /\ IF r.exc = "none"
                   THEN /\ print("Done merging", lang, letter, 0)
                        /\ Goto(AfterMerge(li, ki))
                        /\ UNCHANGED exc
                   ELSE /\ Raise(r.exc)
                        /\ UNCHANGED stdout
    /\ UNCHANGED <<config, gz, txt, wordlist, frequency, num, percent>>

\* lines 83-91: rank the table and append it to lang-frequency.txt
EmitStep ==
    /\ pc = "emit"
    /\ exc = "none"
    /\ LET r == Emit(words, max_final_words)
       IN  /\ frequency' = [frequency EXCEPT ![lang] = @ \o r.lines]
           /\ num' = r.num
    /\ print(">> Done with lang", lang, "", 0)
    /\ Goto(AfterEmit(li))
    /\ UNCHANGED <<config, gz, txt, wordlist, words, percent, exc>>

Next ==
    \/ Download
    \/ Decompress
    \/ Wordlist
    \/ Merge
    \/ EmitStep

Spec == Init /\ [][Next]_vars

(***************************************************************************)
(* What the properties speak of.                                           *)
(***************************************************************************)
\* the records this run has appended to l's frequency file
Written(l) == SubSeq(frequency[l], Len(start.frequency[l]) + 1, Len(frequency[l]))

\* the word and the count of a written record "word count"
\* the fields of a line of an input file
Fields(line) == split(Chars(line))

RecordWord(line) == split(line)[1]

RecordCount(line) == int(split(line)[2])

\* the lower-cased entries of l's wordlist
WordlistKeys(l) ==
    {lower(Fields(wordlist[l].data[i])[1]) :
        i \in {j \in 1..Len(wordlist[l].data) : Len(Fields(wordlist[l].data[j])) > 0}}

Printed(msg, l, k) ==
    \E i \in 1..Len(stdout) : stdout[i][1] = msg /\ stdout[i][2] = l /\ stdout[i][3] = k

PrintedWith(msg, l, k, n) == \E i \in 1..Len(stdout) : stdout[i] = <<msg, l, k, n>>

\* the emit step of language l has run
Emitted(l) == Printed(">> Done with lang", l, "")

\* the language whose emit step was the last step taken, if any
JustEmitted ==
    IF pc = "done" THEN {langs[li]}
    ELSE IF pc = "wordlist" /\ exc = "none" /\ li > 1 THEN {langs[li - 1]}
    ELSE {}

\* a line that "for line in f_in" cannot take a count from
Malformed(line) ==
    LET f == Fields(line)
    IN  Len(f) < 3 \/ ~IntOk(f[3])

\* a line whose lower-cased first token is w
Names(line, w) ==
    LET f == Fields(line)
    IN  Len(f) > 0 /\ lower(f[1]) = w

\* what a line contributes to the count of w
Contribution(line, w) ==
    LET f == Fields(line)
    IN  IF Len(f) >= 3 /\ lower(f[1]) = w /\ IntOk(f[3]) THEN int(f[3]) ELSE 0

RECURSIVE SumLines(_, _)
SumLines(lines, w) ==
    IF lines = <<>> THEN 0
    ELSE Contribution(Head(lines), w) + SumLines(Tail(lines), w)

RECURSIVE SumFiles(_, _, _)
SumFiles(l, ks, w) ==
    IF ks = {} THEN 0
    ELSE LET k == CHOOSE x \in ks : TRUE
         IN  (IF txt[<<l, k>>].exists THEN SumLines(txt[<<l, k>>].data, w) ELSE 0)
             + SumFiles(l, ks \ {k}, w)

\* the sum of the third field over the lines naming w in the decoded files of
\* l that are present, for the letters ks
ExpectedCount(l, ks, w) == SumFiles(l, ks, w)

\* the table of l merged over its decoded files in the order given
RECURSIVE AggregateFrom(_, _, _, _)
AggregateFrom(l, order, i, d) ==
    IF i > Len(order) THEN d
    ELSE AggregateFrom(l, order, i + 1,
            IF txt[<<l, order[i]>>].exists
            THEN MergeFile(d, txt[<<l, order[i]>>].data).words
            ELSE d)

Aggregate(l, order) == AggregateFrom(l, order, 1, LoadWordlist(wordlist[l]).words)

Cat == <<"c", "a", "t">>

Dog == <<"d", "o", "g">>

(***************************************************************************)
(* C1: every word written to a language's frequency file is a lower-cased  *)
(* entry of that language's wordlist, and while a language is merged and   *)
(* emitted the keys of the table are exactly those entries: no corpus      *)
(* token outside the wordlist is ever added.                               *)
(***************************************************************************)
C1_EmittedWordsAreWordlistEntries ==
    /\ \A l \in LangSet : \A i \in 1..Len(Written(l)) :
          RecordWord(Written(l)[i]) \in WordlistKeys(l)
    /\ (pc \in {"merge", "emit"} /\ exc = "none") => Keys(words) = WordlistKeys(lang)

\* a language was emitted although one of its decoded files names a word
\* that is not in its wordlist
C1_Witness ==
    \E l \in LangSet :
        /\ Emitted(l)
        /\ Written(l) # <<>>
        /\ \E k \in LetterSet : \E i \in 1..Len(txt[<<l, k>>].data) :
              /\ ~Malformed(txt[<<l, k>>].data[i])
              /\ lower(Fields(txt[<<l, k>>].data[i])[1]) \notin WordlistKeys(l)

(***************************************************************************)
(* C2: when the merge of a language has completed, the count of every      *)
(* wordlist word is the sum of the integer third field over all lines, in  *)
(* all decoded files present for the language, whose lower-cased first     *)
(* token is that word (0 when there is none); every such line has an       *)
(* integer third field.                                                    *)
(***************************************************************************)
C2_CountsAreSums ==
    (pc = "emit" /\ exc = "none") =>
        \A w \in WordlistKeys(lang) :
            /\ HasKey(words, w)
            /\ Get(words, w) = ExpectedCount(lang, LetterSet, w)
            /\ \A k \in LetterSet : \A i \in 1..Len(txt[<<lang, k>>].data) :
                  Names(txt[<<lang, k>>].data[i], w) => ~Malformed(txt[<<lang, k>>].data[i])

\* wordlist {cat, dog} and the lines cat 5, dog 3, cat 2, fish 9: the table
\* is cat 7, dog 3
C2_Witness ==
    /\ pc = "emit"
    /\ words = <<[k |-> Cat, v |-> 7], [k |-> Dog, v |-> 3]>>
    /\ \E k \in LetterSet : \E i \in 1..Len(txt[<<lang, k>>].data) :
          txt[<<lang, k>>].data[i] = LineFish9

(***************************************************************************)
(* C3: the records one run writes for a language are in non-increasing     *)
(* order of count.                                                         *)
(***************************************************************************)
C3_WrittenNonIncreasing ==
    \A l \in LangSet : \A i \in 1..(Len(Written(l)) - 1) :
        RecordCount(Written(l)[i]) >= RecordCount(Written(l)[i + 1])

\* two records of strictly falling count were written, the first of them
\* not for the first entry of the wordlist
C3_Witness ==
    \E l \in LangSet :
        /\ Len(Written(l)) >= 2
        /\ RecordCount(Written(l)[1]) > RecordCount(Written(l)[2])
        /\ RecordWord(Written(l)[1]) # lower(Fields(wordlist[l].data[1])[1])

(***************************************************************************)
(* C4: the number of records one run writes for a language is at most      *)
(* max_final_words, for every max_final_words >= 0.                        *)
(***************************************************************************)
C4_AtMostMaxFinalWords ==
    \A l \in LangSet : Len(Written(l)) <= max_final_words

(***************************************************************************)
(* C5: a malformed line (fewer than three fields, or a third field that is *)
(* no integer) is skipped on its own: the merge never ends on it, and the  *)
(* counts are those of the well-formed lines.                              *)
(***************************************************************************)
C5_MalformedLineSkipped ==
    /\ ~(pc = "merge" /\ exc \in {"IndexError", "ValueError"})
    /\ (pc = "emit" /\ exc = "none") =>
          \A w \in Keys(words) : Get(words, w) = ExpectedCount(lang, LetterSet, w)

(***************************************************************************)
(* C6: a shard that is not found, or whose compressed file is corrupt,     *)
(* fails alone: decompression never ends the run, and a language with a    *)
(* valid partition and a non-empty wordlist gets records.                  *)
(***************************************************************************)
C6_ShardFailureConfined ==
    /\ exc # "BadGzipFile"
    /\ \A l \in LangSet :
          (/\ pc = "done"
           /\ WordlistKeys(l) # {}
           /\ \E k \in LetterSet : ~remote[<<l, k>>].found \/ ~gz[<<l, k>>].ok
           /\ \E k \in LetterSet : gz[<<l, k>>].exists /\ gz[<<l, k>>].ok)
          => Written(l) # <<>>

(***************************************************************************)
(* C7: a missing wordlist ends the pipeline of its language only: nothing  *)
(* is written for that language, and every other language is emitted.      *)
(***************************************************************************)
C7_MissingWordlistConfined ==
    exc = "FileNotFoundError" =>
        /\ Written(lang) = <<>>
        /\ \A l \in LangSet \ {lang} : Emitted(l)

(***************************************************************************)
(* C8: a shard the remote does not serve is reported with fraction 0,      *)
(* leaves the local compressed file as it was, and has no effect on the    *)
(* table: the merged counts are the sums over the partitions that were     *)
(* served, whatever the local files were when the run started.             *)
(***************************************************************************)
C8_NotFoundHasNoEffect ==
    /\ \A s \in Shards :
          (Printed("Done with download", s[1], s[2]) /\ ~remote[s].found) =>
              /\ Printed("Did not find", s[1], s[2])
              /\ PrintedWith("Done with download", s[1], s[2], 0)
              /\ gz[s] = start.gz[s]
    /\ (pc = "emit" /\ exc = "none") =>
          \A w \in Keys(words) :
              Get(words, w) =
                  ExpectedCount(lang, {k \in LetterSet : remote[<<lang, k>>].found}, w)

(***************************************************************************)
(* C9: the merge does not depend on the order of the letters: in whatever  *)
(* order the run iterates them, the merged table is the one the script's   *)
(* own order yields, and so are the records the emit step then writes.     *)
(***************************************************************************)
C9_OrderIndependent ==
    /\ (pc = "emit" /\ exc = "none") => words = Aggregate(lang, LetterList)
    /\ \A l \in JustEmitted :
          Written(l) = Emit(Aggregate(l, LetterList), max_final_words).lines

\* the letters are iterated in another order than the script's, and some
\* word has counts from two different files
C9_Witness ==
    /\ pc = "emit"
    /\ letters # LetterList
    /\ \E w \in Keys(words) : \E k1, k2 \in LetterSet :
          /\ k1 # k2
          /\ ExpectedCount(lang, {k1}, w) > 0
          /\ ExpectedCount(lang, {k2}, w) > 0

(***************************************************************************)
(* C10: fetch, then decode, then aggregate, then emit: no file of a        *)
(* language is merged before every partition of the language has been      *)
(* through its download and its decompress step, and no record of a        *)
(* language is written before every decoded file of the language has been  *)
(* merged.                                                                 *)
(***************************************************************************)
C10_PhasesOrdered ==
    /\ \A l \in LangSet :
          ((\E k \in LetterSet : Printed("Done merging", l, k))
             \/ (pc \in {"merge", "emit"} /\ lang = l))
          => \A k \in LetterSet :
                /\ Printed("Done with download", l, k)
                /\ Printed("Done decompressing", l, k) \/ Printed("Not found", l, k)
    /\ \A l \in LangSet :
          (Written(l) # <<>> \/ Emitted(l))
          => \A k \in LetterSet : txt[<<l, k>>].exists => Printed("Done merging", l, k)

\* the run is over, every language has records, and one shard was skipped
C10_Witness ==
    /\ pc = "done"
    /\ \A l \in LangSet : Written(l) # <<>>
    /\ \E s \in Shards : Printed("Not found", s[1], s[2])

=============================================================================
